---- MODULE Spec2Model ----
(***************************************************************************)
(* Model of the YouTubeChannelVideos controller (the fallback-aware        *)
(* version of the class) of alaan-tv-live: configuration validation, the   *)
(* localStorage cache with expiry, the asynchronous fetch chain            *)
(* (username lookup, search lookup, channel details, playlist items),      *)
(* fallback composition and the render / error dispatch.                   *)
(*                                                                         *)
(* One init() call is a "run".  The synchronous part of init() is a single *)
(* action; every network call is a suspension point, and everything that   *)
(* follows the resolution of a call up to the next call (or up to the end  *)
(* of the .then / .catch handlers) is one action.                          *)
(***************************************************************************)
EXTENDS Integers, Sequences, FiniteSets, TLC

VARIABLES
    controller,     \* which YouTubeChannelVideos class was constructed
    options,        \* this.options, fixed at construction
    containerEl,    \* this.container: TRUE iff querySelector found the node
    container,      \* children of the render target (this.container.innerHTML)
    loadingDisplay, \* style.display of #youtube-loading
    localStorage,   \* the value stored under this.cacheKey
    getItemRaises,  \* TRUE iff localStorage.getItem raises (storage access denied)
    now,            \* Date.now()
    ticks,          \* number of clock advances so far
    runs,           \* one record per init() call
    page,           \* the page script that drives the controller, and its position
    youtubeShowFeaturedVideo,   \* window.youtubeShowFeaturedVideo
    watchdog,       \* the setTimeout timers of the page script
    youtubeFallback,            \* style.display of #youtube-fallback
    youtubeStaticFallback,      \* style.display of #youtube-static-fallback
    instagram       \* the Instagram embed: iframe, displays of its three elements, timer

vars == <<controller, options, containerEl, container, loadingDisplay, localStorage,
          getItemRaises, now, ticks, runs, page, youtubeShowFeaturedVideo, watchdog,
          youtubeFallback, youtubeStaticFallback, instagram>>

(* what the page script owns *)
pageVars == <<page, youtubeShowFeaturedVideo, watchdog, youtubeFallback,
              youtubeStaticFallback, instagram>>

----------------------------------------------------------------------------
(* Bounds *)

MaxRuns == 2
MaxTicks == 2

(* Program constants *)

MsPerSecond == 1000
CacheExpirationDefault == 3600
ThumbWidth == 480
ThumbHeight == 360
WatchdogDelay == 5000
StaticFallbackDelay == 3000
InstagramDelay == 5000
InstagramStaticDelay == 3000

RunIds == 1..MaxRuns

----------------------------------------------------------------------------
(* Values *)

NoUrl == <<>>
WatchUrl(id) == <<"https://www.youtube.com/watch?v=", id>>
FallbackThumbUrl(id) == <<"https://i.ytimg.com/vi/", id, "/hqdefault.jpg">>
DefaultHeader == "latest-videos-from-youtube"
FallbackChannelTitle == "Alaan TV Channel"

NoThumbnail == [defined |-> FALSE, url |-> NoUrl, width |-> 0, height |-> 0]
ApiThumbnail(id, variant) ==
    [defined |-> TRUE, url |-> <<"thumb", id, variant>>, width |-> 0, height |-> 0]

(* A playlistItems response item: snippet.resourceId.videoId, the offered   *)
(* thumbnail variants and snippet.publishedAt.  wellFormed = FALSE is an    *)
(* item without snippet.resourceId (reading .videoId raises TypeError).     *)
ItemA == [wellFormed |-> TRUE, videoId |-> "vidA", title |-> "Title A",
          thumbs |-> {"high", "medium", "default"}, publishedAt |-> 100]
ItemB == [wellFormed |-> TRUE, videoId |-> "vidB", title |-> "Title B",
          thumbs |-> {"medium", "default"}, publishedAt |-> 200]
ItemC == [wellFormed |-> TRUE, videoId |-> "vidC", title |-> "Private video",
          thumbs |-> {}, publishedAt |-> 300]
ItemD == [wellFormed |-> FALSE, videoId |-> "", title |-> "Title D",
          thumbs |-> {"default"}, publishedAt |-> 400]
ItemE == [wellFormed |-> TRUE, videoId |-> "vidE", title |-> "Title E",
          thumbs |-> {"default"}, publishedAt |-> 500]

PlaylistPayloads ==
    { <<>>, <<ItemA, ItemB>>, <<ItemE, ItemC>>, <<ItemA, ItemD>> }

(* Fallback entries of options.fallbackVideos: a bare string, an object, or *)
(* null (typeof null is 'object').                                          *)
BareEntry(id) == [type |-> "string", isNull |-> FALSE, id |-> id, title |-> "", url |-> NoUrl]
ObjEntry(id, title, url) == [type |-> "object", isNull |-> FALSE, id |-> id, title |-> title, url |-> url]
NullEntry == [type |-> "object", isNull |-> TRUE, id |-> "", title |-> "", url |-> NoUrl]

Config(k, c, u, f, fb) ==
    [apiKey |-> k, channelId |-> c, channelUsername |-> u, featuredVideo |-> f,
     fallbackVideos |-> fb, cacheExpiration |-> CacheExpirationDefault]

ConfigIdOnly == Config("KEY", "UCcfg", "", FALSE, <<BareEntry("abc123")>>)
ConfigBoth == Config("KEY", "UCcfg", "@handle", TRUE, <<ObjEntry("xyz", "", <<"https://example.org/x">>)>>)
ConfigNoKey == Config("", "UCcfg", "", TRUE, <<BareEntry("abc123")>>)
ConfigNoChannel == Config("KEY", "", "", FALSE, <<BareEntry("abc123")>>)

Configurations ==
    { Config("KEY", "", "@handle", FALSE, <<>>),
      Config("KEY", "", "@handle", TRUE, <<ObjEntry("xyz", "Custom", NoUrl), BareEntry("abc123")>>),
      Config("KEY", "", "@handle", FALSE, <<BareEntry("abc123"), NullEntry>>),
      Config("KEY", "UCcfg", "", TRUE, <<>>),
      ConfigIdOnly, ConfigBoth, ConfigNoKey, ConfigNoChannel }

(* The value stored under this.cacheKey: nothing, a string that JSON.parse  *)
(* accepts (parses, with the videos and the timestamp it yields), or a      *)
(* string on which JSON.parse raises SyntaxError.                           *)
AbsentEntry == [present |-> FALSE, parses |-> TRUE, videos |-> <<>>, timestamp |-> 0]
GarbledEntry == [present |-> TRUE, parses |-> FALSE, videos |-> <<>>, timestamp |-> 0]

NewRun ==
    [pc |-> "idle", trace |-> <<>>, reqs |-> <<>>, cache |-> "none", age |-> "none",
     afterCheck |-> AbsentEntry, endStore |-> AbsentEntry,
     fetch |-> "none", fetched |-> <<>>, writes |-> 0, putFailed |-> FALSE,
     renders |-> 0, rendered |-> <<>>, source |-> "none", error |-> "none"]

----------------------------------------------------------------------------
(* Pure functions of the class *)

(* the guards with the API key left unchecked *)
ConfigValidKeyUnchecked ==
    /\ containerEl
    /\ ~(options.channelId = "" /\ options.channelUsername = "")

(* the guards requiring exactly one of channelId and channelUsername *)
ConfigValidExactlyOne ==
    /\ containerEl
    /\ options.apiKey # ""
    /\ (options.channelId = "") # (options.channelUsername = "")

(* init(): the three configuration guards *)
ConfigValid ==
    /\ containerEl
    /\ options.apiKey # ""
    /\ ~(options.channelId = "" /\ options.channelUsername = "")

(* JSON.stringify of a record list followed by JSON.parse: a Date becomes  *)
(* its ISO string and stays a string.                                       *)
JsonRoundTrip(videos) ==
    [i \in 1..Len(videos) |->
        [videos[i] EXCEPT !.publishedAt = [kind |-> "string", value |-> @.value]]]

(* the expiry test with >= in place of > *)
IsExpiredInclusive(t, timestamp) ==
    t >= timestamp + options.cacheExpiration * MsPerSecond

(* getFromCache(): the expiry test *)
IsExpired(t, timestamp) ==
    t > timestamp + options.cacheExpiration * MsPerSecond

(* where the clock stands relative to capturedAt + ttl of the stored entry *)
EntryAge(st, t) ==
    IF ~st.present THEN "absent"
    ELSE IF ~st.parses THEN "unreadable"
    ELSE IF t < st.timestamp + options.cacheExpiration * MsPerSecond THEN "before"
    ELSE IF t = st.timestamp + options.cacheExpiration * MsPerSecond THEN "at"
    ELSE "after"

(* the catch block returning [] in place of null *)
GetFromCacheCatchEmptyList(st, t, getOk) ==
    IF ~getOk \/ (st.present /\ ~st.parses)
    THEN [hit |-> TRUE, videos |-> <<>>, store |-> st, why |-> "hit"]
    ELSE IF ~st.present THEN [hit |-> FALSE, videos |-> <<>>, store |-> st, why |-> "absent"]
    ELSE IF IsExpired(t, st.timestamp)
         THEN [hit |-> FALSE, videos |-> <<>>, store |-> AbsentEntry, why |-> "expired"]
         ELSE [hit |-> TRUE, videos |-> st.videos, store |-> st, why |-> "hit"]

(* a hit that rewrites the capture timestamp (sliding expiry) *)
GetFromCacheRefreshing(st, t, getOk) ==
    IF ~getOk THEN [hit |-> FALSE, videos |-> <<>>, store |-> st, why |-> "readError"]
    ELSE IF ~st.present THEN [hit |-> FALSE, videos |-> <<>>, store |-> st, why |-> "absent"]
    ELSE IF ~st.parses
         THEN [hit |-> FALSE, videos |-> <<>>, store |-> st, why |-> "unreadable"]
    ELSE IF IsExpired(t, st.timestamp)
         THEN [hit |-> FALSE, videos |-> <<>>, store |-> AbsentEntry, why |-> "expired"]
         ELSE [hit |-> TRUE, videos |-> st.videos,
               store |-> [st EXCEPT !.timestamp = t], why |-> "hit"]

(* the cached videos never returned: every readable entry treated as a miss *)
GetFromCacheNeverHits(st, t, getOk) ==
    IF ~getOk THEN [hit |-> FALSE, videos |-> <<>>, store |-> st, why |-> "readError"]
    ELSE IF ~st.present THEN [hit |-> FALSE, videos |-> <<>>, store |-> st, why |-> "absent"]
    ELSE IF ~st.parses
         THEN [hit |-> FALSE, videos |-> <<>>, store |-> st, why |-> "unreadable"]
    ELSE IF IsExpired(t, st.timestamp)
         THEN [hit |-> FALSE, videos |-> <<>>, store |-> AbsentEntry, why |-> "expired"]
         ELSE [hit |-> FALSE, videos |-> <<>>, store |-> st, why |-> "absent"]

(* getFromCache(): hit (videos), or miss with the entry evicted if expired; *)
(* getItem raising (getOk = FALSE) or JSON.parse raising is caught and      *)
(* reported as a miss, the stored value left in place                       *)
GetFromCache(st, t, getOk) ==
    IF ~getOk THEN [hit |-> FALSE, videos |-> <<>>, store |-> st, why |-> "readError"]
    ELSE IF ~st.present THEN [hit |-> FALSE, videos |-> <<>>, store |-> st, why |-> "absent"]
    ELSE IF ~st.parses
         THEN [hit |-> FALSE, videos |-> <<>>, store |-> st, why |-> "unreadable"]
    ELSE IF IsExpired(t, st.timestamp)
         THEN [hit |-> FALSE, videos |-> <<>>, store |-> AbsentEntry, why |-> "expired"]
         ELSE [hit |-> TRUE, videos |-> st.videos, store |-> st, why |-> "hit"]

(* saveToCache(): setItem either succeeds or throws (caught and logged) *)
SaveToCache(st, videos, t, putOk) ==
    IF putOk THEN [present |-> TRUE, parses |-> TRUE,
                   videos |-> JsonRoundTrip(videos), timestamp |-> t]
    ELSE st

(* the priority reversed: default || medium || high *)
SelectThumbnailLowestFirst(id, thumbs) ==
    IF "default" \in thumbs THEN ApiThumbnail(id, "default")
    ELSE IF "medium" \in thumbs THEN ApiThumbnail(id, "medium")
    ELSE IF "high" \in thumbs THEN ApiThumbnail(id, "high")
    ELSE NoThumbnail

(* fetchVideos(): thumbnail priority high || medium || default *)
SelectThumbnail(id, thumbs) ==
    IF "high" \in thumbs THEN ApiThumbnail(id, "high")
    ELSE IF "medium" \in thumbs THEN ApiThumbnail(id, "medium")
    ELSE IF "default" \in thumbs THEN ApiThumbnail(id, "default")
    ELSE NoThumbnail

(* fetchVideos(): normalisation of one playlist item *)
Normalize(item) ==
    [id |-> item.videoId, title |-> item.title, description |-> "desc",
     thumbnail |-> SelectThumbnail(item.videoId, item.thumbs),
     publishedAt |-> [kind |-> "Date", value |-> item.publishedAt],
     channelTitle |-> "Channel", url |-> NoUrl]

NormalizeAll(items) == [i \in 1..Len(items) |-> Normalize(items[i])]

NormalizeThrows(items) == \E i \in 1..Len(items) : ~items[i].wellFormed

(* an entry written by an earlier page load, and the stores a page load    *)
(* can start from                                                           *)
PriorEntry == SaveToCache(AbsentEntry, NormalizeAll(<<ItemA, ItemB>>), 0, TRUE)

Setups ==
    { <<c, AbsentEntry, FALSE>> : c \in Configurations }
        \cup { <<ConfigIdOnly, GarbledEntry, FALSE>>, <<ConfigIdOnly, PriorEntry, TRUE>>,
               <<ConfigBoth, PriorEntry, FALSE>>,
               <<ConfigNoKey, PriorEntry, FALSE>>, <<ConfigNoChannel, PriorEntry, FALSE>> }

(* createFallbackVideos() *)
FallbackConfigured == Len(options.fallbackVideos) # 0

CreateFallbackThrows ==
    \E i \in 1..Len(options.fallbackVideos) : options.fallbackVideos[i].isNull

(* the default title numbered from the 0-based index of map() *)
FallbackRecordZeroBasedTitle(entry, index, t) ==
    [id |-> entry.id,
     title |-> IF entry.type = "object" /\ entry.title # "" THEN entry.title
               ELSE IF index = 1 THEN "Video 0"
               ELSE IF index = 2 THEN "Video 1" ELSE "Video n",
     description |-> "",
     thumbnail |-> [defined |-> TRUE, url |-> FallbackThumbUrl(entry.id),
                    width |-> ThumbWidth, height |-> ThumbHeight],
     publishedAt |-> [kind |-> "Date", value |-> t],
     channelTitle |-> FallbackChannelTitle,
     url |-> IF entry.type = "object" /\ entry.url # NoUrl THEN entry.url
             ELSE WatchUrl(entry.id)]

(* the identifier read as video.id whatever the entry's type *)
FallbackRecordObjectOnly(entry, index, t) ==
    [id |-> IF entry.type = "object" THEN entry.id ELSE "",
     title |-> IF entry.type = "object" /\ entry.title # "" THEN entry.title
               ELSE IF index = 1 THEN "Video 1"
               ELSE IF index = 2 THEN "Video 2" ELSE "Video n",
     description |-> "",
     thumbnail |-> [defined |-> TRUE, url |-> FallbackThumbUrl(entry.id),
                    width |-> ThumbWidth, height |-> ThumbHeight],
     publishedAt |-> [kind |-> "Date", value |-> t],
     channelTitle |-> FallbackChannelTitle,
     url |-> IF entry.type = "object" /\ entry.url # NoUrl THEN entry.url
             ELSE WatchUrl(entry.id)]

FallbackRecord(entry, index, t) ==
    [id |-> entry.id,
     title |-> IF entry.type = "object" /\ entry.title # "" THEN entry.title
               ELSE IF index = 1 THEN "Video 1"
               ELSE IF index = 2 THEN "Video 2" ELSE "Video n",
     description |-> "",
     thumbnail |-> [defined |-> TRUE, url |-> FallbackThumbUrl(entry.id),
                    width |-> ThumbWidth, height |-> ThumbHeight],
     publishedAt |-> [kind |-> "Date", value |-> t],
     channelTitle |-> FallbackChannelTitle,
     url |-> IF entry.type = "object" /\ entry.url # NoUrl THEN entry.url
             ELSE WatchUrl(entry.id)]

CreateFallbackVideos(t) ==
    IF ~FallbackConfigured THEN <<>>
    ELSE [i \in 1..Len(options.fallbackVideos) |->
            FallbackRecord(options.fallbackVideos[i], i, t)]

(* renderVideos() / showError(): the channel link *)
ChannelLink ==
    IF options.channelUsername # "" THEN <<"https://www.youtube.com/", options.channelUsername>>
    ELSE <<"https://www.youtube.com/", "channel/", options.channelId>>

Element(el, text, href, cards) == [el |-> el, text |-> text, href |-> href, cards |-> cards]

(* renderVideos(): one video card.  Reading thumbnail.url of an undefined  *)
(* thumbnail raises TypeError; the earlier class also formats publishedAt  *)
(* with Intl.DateTimeFormat, which raises RangeError for an ISO string     *)
(* (ToNumber of the string is NaN).                                         *)
CardThrowsEarlier(v) == v.publishedAt.kind # "Date" \/ ~v.thumbnail.defined
CardThrowsCurrent(v) == ~v.thumbnail.defined
CardThrows(v) ==
    IF controller = "earlier" THEN CardThrowsEarlier(v) ELSE CardThrowsCurrent(v)

CardEarlier(v) ==
    [href |-> WatchUrl(v.id), img |-> v.thumbnail.url, title |-> v.title,
     date |-> v.publishedAt.value]
CardCurrent(v) ==
    [href |-> IF v.url # NoUrl THEN v.url ELSE WatchUrl(v.id),
     img |-> v.thumbnail.url, title |-> v.title, date |-> 0]
Card(v) == IF controller = "earlier" THEN CardEarlier(v) ELSE CardCurrent(v)

(* the first record featured whatever the option says *)
FeaturedShownAlways(videos) == Len(videos) > 0

FeaturedShown(videos) == options.featuredVideo /\ Len(videos) > 0

(* renderVideos(): the children appended to the cleared container, and     *)
(* whether the call raised before appending the grid                        *)
RenderVideos(videos) ==
    LET header == Element("youtube-channel-info",
                          IF Len(videos) > 0 /\ videos[1].channelTitle # ""
                          THEN videos[1].channelTitle ELSE DefaultHeader,
                          NoUrl, <<>>)
        feat == FeaturedShown(videos)
        rest == IF feat THEN SubSeq(videos, 2, Len(videos)) ELSE videos
    IN  IF feat /\ CardThrows(videos[1])
        THEN [dom |-> <<header>>, threw |-> TRUE]
        ELSE LET pre == IF feat
                        THEN <<header, Element("youtube-featured-video", "", NoUrl,
                                               <<Card(videos[1])>>)>>
                        ELSE <<header>>
             IN  IF \E i \in 1..Len(rest) : CardThrows(rest[i])
                 THEN [dom |-> pre, threw |-> TRUE]
                 ELSE [dom |-> pre \o
                          << Element("youtube-videos-grid", "", NoUrl,
                                     [i \in 1..Len(rest) |-> Card(rest[i])]),
                             Element("youtube-view-more", "", ChannelLink, <<>>) >>,
                       threw |-> FALSE]

(* showError() *)
ShowError(message) == << Element("youtube-error", message, ChannelLink, <<>>) >>

----------------------------------------------------------------------------
(* The .then / .catch handlers of init().  An effect record carries the    *)
(* store, the render target, the loading indicator and the run's record;   *)
(* threw says the handler raised.                                           *)

Effect(st, dom, ld, run, threw) ==
    [store |-> st, dom |-> dom, loading |-> ld, run |-> run, threw |-> threw]

(* renderVideos() appending to the container without clearing it *)
DoRenderAppending(e, videos, source) ==
    LET rr == RenderVideos(videos)
    IN  Effect(e.store, e.dom \o rr.dom, "none",
               [e.run EXCEPT !.renders = @ + 1,
                             !.trace = IF rr.threw THEN @ ELSE Append(@, "Rendered"),
                             !.rendered = IF rr.threw THEN @ ELSE videos,
                             !.source = IF rr.threw THEN @ ELSE source],
               rr.threw)

(* the call of renderVideos(videos) from a handler *)
DoRender(e, videos, source) ==
    LET rr == RenderVideos(videos)
    IN  Effect(e.store, rr.dom, "none",
               [e.run EXCEPT !.renders = @ + 1,
                             !.trace = IF rr.threw THEN @ ELSE Append(@, "Rendered"),
                             !.rendered = IF rr.threw THEN @ ELSE videos,
                             !.source = IF rr.threw THEN @ ELSE source],
               rr.threw)

(* showError() without the line that hides the loading indicator *)
ErrorEffectKeepsLoading(e, message) ==
    Effect(e.store, ShowError(message), e.loading,
           [e.run EXCEPT !.renders = @ + 1,
                         !.trace = Append(@, "ErrorShown"),
                         !.error = message],
           FALSE)

(* the call of showError(message) from a handler *)
ErrorEffect(e, message) ==
    Effect(e.store, ShowError(message), "none",
           [e.run EXCEPT !.renders = @ + 1,
                         !.trace = Append(@, "ErrorShown"),
                         !.error = message],
           FALSE)

(* the else branch of .then and the body of .catch: the fallback attempt  *)
(* and, when it yields nothing, showError(message); the earlier class has  *)
(* no fallback and calls showError(message) directly                        *)
FallbackOrError(e, message, t) ==
    LET run1 == [e.run EXCEPT !.trace = IF @[Len(@)] = "FallbackCheck" THEN @
                                        ELSE Append(@, "FallbackCheck")]
        e1 == [e EXCEPT !.run = run1]
    IN  IF controller = "earlier" THEN ErrorEffect(e, message)
        ELSE IF FallbackConfigured /\ CreateFallbackThrows
        THEN [e1 EXCEPT !.threw = TRUE]
        ELSE IF Len(CreateFallbackVideos(t)) > 0
             THEN DoRender(e1, CreateFallbackVideos(t), "fallback")
             ELSE ErrorEffect(e1, message)

(* the test reduced to if (videos), true of an empty array *)
ThenTakesAnyList(videos) == TRUE

(* .then(videos => ...) *)
ThenTakesVideos(videos) == Len(videos) > 0

(* the handler with the else dropped: the fallback attempt also follows a  *)
(* successful render                                                        *)
ThenHandlerNoElse(e, videos, t, putOk) ==
    IF ThenTakesVideos(videos)
    THEN LET saved == [e EXCEPT !.store = SaveToCache(e.store, videos, t, putOk),
                                !.run.writes = @ + (IF putOk THEN 1 ELSE 0),
                                !.run.putFailed = ~putOk]
             shown == DoRender(saved, videos, "api")
         IN  IF shown.threw THEN shown ELSE FallbackOrError(shown, "No videos found", t)
    ELSE FallbackOrError(e, "No videos found", t)

ThenHandler(e, videos, t, putOk) ==
    IF ThenTakesVideos(videos)
    THEN LET saved == [e EXCEPT !.store = SaveToCache(e.store, videos, t, putOk),
                                !.run.writes = @ + (IF putOk THEN 1 ELSE 0),
                                !.run.putFailed = ~putOk]
         IN  DoRender(saved, videos, "api")
    ELSE FallbackOrError(e, "No videos found", t)

(* .catch(error => ...) *)
CatchHandler(e, t) == FallbackOrError([e EXCEPT !.threw = FALSE], "Failed to load videos", t)

(* the promise chain once fetchVideos() has settled: .then if it resolved, *)
(* .catch if it rejected or if .then raised                                 *)
Settle(e, resolved, videos, t, putOk) ==
    LET e0 == [e EXCEPT !.run.fetch = IF resolved THEN "ok" ELSE "fail",
                        !.run.fetched = IF resolved THEN videos ELSE <<>>]
        e1 == IF resolved THEN ThenHandler(e0, videos, t, putOk) ELSE e0
        e2 == IF ~resolved \/ e1.threw THEN CatchHandler(e1, t) ELSE e1
        pc == IF e2.threw THEN "Crashed"
              ELSE IF e2.run.error # "none" THEN "ErrorShown" ELSE "Rendered"
    IN  [e2 EXCEPT !.run.pc = pc, !.run.endStore = e2.store]

----------------------------------------------------------------------------
(* Network outcomes *)

LookupOutcomes == {"reject", "notOk", "empty", "found"}
ChannelOutcomes == {"reject", "notOk", "empty", "malformed", "found"}
PlaylistOutcomes == {"reject", "notOk", "items"}

Request(endpoint, arg) == <<endpoint, arg>>

(* the username lookup issued although a channel identifier is configured *)
FirstRequestHandleFirst ==
    IF options.channelUsername # ""
    THEN Request("channels.forUsername", options.channelUsername)
    ELSE Request("channels.id", options.channelId)

(* fetchVideos() step 1: the configured identifier is used as it is, the    *)
(* username lookup is made only when there is none                          *)
FirstRequest ==
    IF options.channelId # ""
    THEN Request("channels.id", options.channelId)
    ELSE Request("channels.forUsername", options.channelUsername)

(* getChannelIdFromHandle(): channelUsername.replace('@', '') *)
StripAt(u) == IF u = "@handle" THEN "handle" ELSE u

CurrentEffect(r) == Effect(localStorage, container, loadingDisplay, runs[r], FALSE)

Apply(r, e) ==
    /\ localStorage' = e.store
    /\ container' = e.dom
    /\ loadingDisplay' = e.loading
    /\ runs' = [runs EXCEPT ![r] = e.run]

(* The records of the two most recent init() calls are kept: when call r   *)
(* starts, the record of call r - 2, which has finished, is dropped.       *)
Finished(run) == run.pc \in {"aborted", "Rendered", "ErrorShown", "Crashed", "retired"}
Retired == [NewRun EXCEPT !.pc = "retired"]
MayStart(r) ==
    /\ runs[r].pc = "idle"
    /\ IF r = 1 THEN TRUE ELSE runs[r - 1].pc # "idle"
    /\ IF r <= 2 THEN TRUE ELSE Finished(runs[r - 2])
Started(r, run) ==
    [q \in RunIds |-> IF q = r THEN run
                      ELSE IF q = r - 2 THEN Retired ELSE runs[q]]

Issue(r, endpoint, arg, pc) ==
    /\ runs' = [runs EXCEPT ![r].reqs = Append(@, Request(endpoint, arg)), ![r].pc = pc]
    /\ UNCHANGED <<localStorage, container, loadingDisplay>>

----------------------------------------------------------------------------
(* Actions *)

(* no page script: the controller is constructed and driven directly *)
NoTimer == [state |-> "unset", due |-> 0]
NoInstagram ==
    [iframe |-> FALSE, loaded |-> FALSE, loading |-> "initial", fallback |-> "initial",
     static |-> "initial", timer |-> NoTimer]
NoPage ==
    /\ page = [script |-> "none", pc |-> "direct"]
    /\ youtubeShowFeaturedVideo = [defined |-> FALSE, value |-> FALSE]
    /\ watchdog = NoTimer
    /\ youtubeFallback = "initial"
    /\ youtubeStaticFallback = "initial"
    /\ instagram = NoInstagram

Init ==
    /\ controller = "current"
    /\ \E s \in Setups : options = s[1] /\ localStorage = s[2] /\ getItemRaises = s[3]
    /\ containerEl \in BOOLEAN
    /\ container = <<>>
    /\ loadingDisplay = "initial"
    /\ now = 0
    /\ ticks = 0
    /\ runs = [r \in RunIds |-> NewRun]
    /\ NoPage

(* init(), up to its return: validation, cache check, and on a miss        *)
(* showLoading() and the first request of fetchVideos()                     *)
InitCall(r) ==
    /\ MayStart(r)
    /\ UNCHANGED <<controller, options, containerEl, getItemRaises, now, ticks>>
    /\ IF ~ConfigValid
       THEN /\ runs' = Started(r, [runs[r] EXCEPT !.pc = "aborted", !.trace = <<"Init">>])
            /\ UNCHANGED <<localStorage, container, loadingDisplay>>
       ELSE LET gc == GetFromCache(localStorage, now, ~getItemRaises)
                run0 == [runs[r] EXCEPT !.trace = <<"Init", "CacheCheck">>,
                                        !.cache = gc.why,
                                        !.age = IF ~getItemRaises THEN EntryAge(localStorage, now)
                                                ELSE "unread",
                                        !.afterCheck = gc.store,
                                        !.endStore = gc.store]
                hit == DoRender(Effect(gc.store, container, loadingDisplay, run0, FALSE),
                                gc.videos, "cache")
                loading == [run0 EXCEPT !.trace = Append(@, "Loading"),
                                        !.reqs = Append(@, FirstRequest),
                                        !.pc = IF FirstRequest[1] = "channels.id"
                                               THEN "waitChannel" ELSE "waitUsername"]
                done == IF gc.hit
                        THEN [hit EXCEPT !.run.pc = IF hit.threw THEN "Crashed"
                                                    ELSE "Rendered"]
                        ELSE Effect(gc.store, <<>>, "flex", loading, FALSE)
            IN  /\ localStorage' = done.store
                /\ container' = done.dom
                /\ loadingDisplay' = done.loading
                /\ runs' = Started(r, done.run)

(* init() called on a controller that no page script drives *)
StartInit(r) ==
    /\ page.script = "none"
    /\ InitCall(r)
    /\ UNCHANGED pageVars

(* the search lookup made after any username lookup that gave no identifier *)
UsernameResponseSearchOnError(r, outcome) ==
    /\ runs[r].pc = "waitUsername"
    /\ UNCHANGED <<controller, options, containerEl, getItemRaises, now, ticks, pageVars>>
    /\ IF outcome = "found"
       THEN Issue(r, "channels.id", "UCuser", "waitChannel")
       ELSE Issue(r, "search", StripAt(options.channelUsername), "waitSearch")

(* getChannelIdFromUsername() after its request settled *)
UsernameResponse(r, outcome) ==
    /\ runs[r].pc = "waitUsername"
    /\ UNCHANGED <<controller, options, containerEl, getItemRaises, now, ticks, pageVars>>
    /\ CASE outcome = "found" -> Issue(r, "channels.id", "UCuser", "waitChannel")
         [] outcome = "empty" ->
              Issue(r, "search", StripAt(options.channelUsername), "waitSearch")
         [] OTHER -> Apply(r, Settle(CurrentEffect(r), FALSE, <<>>, now, TRUE))

(* the search lookup made again after a non-success status *)
SearchResponseRetry(r, outcome) ==
    /\ runs[r].pc = "waitSearch"
    /\ UNCHANGED <<controller, options, containerEl, getItemRaises, now, ticks, pageVars>>
    /\ IF outcome = "found"
       THEN Issue(r, "channels.id", "UCsearch", "waitChannel")
       ELSE IF outcome = "notOk" /\ Len(runs[r].reqs) < 3
       THEN Issue(r, "search", StripAt(options.channelUsername), "waitSearch")
       ELSE Apply(r, Settle(CurrentEffect(r), FALSE, <<>>, now, TRUE))

(* fetchVideos() going on to step 2 without an identifier *)
SearchResponseProceeds(r, outcome) ==
    /\ runs[r].pc = "waitSearch"
    /\ UNCHANGED <<controller, options, containerEl, getItemRaises, now, ticks, pageVars>>
    /\ IF outcome = "found"
       THEN Issue(r, "channels.id", "UCsearch", "waitChannel")
       ELSE Issue(r, "channels.id", "", "waitChannel")

(* getChannelIdFromHandle() after its request settled *)
SearchResponse(r, outcome) ==
    /\ runs[r].pc = "waitSearch"
    /\ UNCHANGED <<controller, options, containerEl, getItemRaises, now, ticks, pageVars>>
    /\ IF outcome = "found"
       THEN Issue(r, "channels.id", "UCsearch", "waitChannel")
       ELSE Apply(r, Settle(CurrentEffect(r), FALSE, <<>>, now, TRUE))

(* the channel-details request made again after a non-success status *)
ChannelResponseRetry(r, outcome) ==
    /\ runs[r].pc = "waitChannel"
    /\ UNCHANGED <<controller, options, containerEl, getItemRaises, now, ticks, pageVars>>
    /\ IF outcome = "found"
       THEN Issue(r, "playlistItems", "UUuploads", "waitPlaylist")
       ELSE IF outcome = "notOk" /\ Len(runs[r].reqs) < 5
       THEN Issue(r, "channels.id", runs[r].reqs[Len(runs[r].reqs)][2], "waitChannel")
       ELSE Apply(r, Settle(CurrentEffect(r), FALSE, <<>>, now, TRUE))

(* fetchVideos() step 2 after the channel-details request settled *)
ChannelResponse(r, outcome) ==
    /\ runs[r].pc = "waitChannel"
    /\ UNCHANGED <<controller, options, containerEl, getItemRaises, now, ticks, pageVars>>
    /\ IF outcome = "found"
       THEN Issue(r, "playlistItems", "UUuploads", "waitPlaylist")
       ELSE Apply(r, Settle(CurrentEffect(r), FALSE, <<>>, now, TRUE))

(* fetchVideos() step 3 after the playlist request settled, and the        *)
(* handlers of init() that follow                                           *)
PlaylistResponse(r, outcome, items, putOk) ==
    /\ runs[r].pc = "waitPlaylist"
    /\ UNCHANGED <<controller, options, containerEl, getItemRaises, now, ticks, pageVars>>
    /\ IF outcome = "items" /\ ~NormalizeThrows(items)
       THEN Apply(r, Settle(CurrentEffect(r), TRUE, NormalizeAll(items), now, putOk))
       ELSE Apply(r, Settle(CurrentEffect(r), FALSE, <<>>, now, TRUE))

(* the clock; no time passes between the construction of a controller in *)
(* a handler of the page script and the init() call that follows it        *)
InHandler == page.pc \in {"then", "catch"}

TickSteps == {1, options.cacheExpiration * MsPerSecond}

Tick(d) ==
    /\ ticks < MaxTicks
    /\ ~InHandler
    /\ now' = now + d
    /\ ticks' = ticks + 1
    /\ UNCHANGED <<controller, options, containerEl, getItemRaises, container, loadingDisplay,
                 localStorage, runs, pageVars>>

Next ==
    \/ \E r \in RunIds : StartInit(r)
    \/ \E r \in RunIds, o \in LookupOutcomes : UsernameResponse(r, o)
    \/ \E r \in RunIds, o \in LookupOutcomes : SearchResponse(r, o)
    \/ \E r \in RunIds, o \in ChannelOutcomes : ChannelResponse(r, o)
    \/ \E r \in RunIds, o \in PlaylistOutcomes, items \in PlaylistPayloads, putOk \in BOOLEAN :
          PlaylistResponse(r, o, items, putOk)
    \/ \E d \in TickSteps : Tick(d)

Spec == Init /\ [][Next]_vars

(* the earlier class (no fallback support, dates rendered) *)
InitEarlier ==
    /\ controller = "earlier"
    /\ \E s \in Setups : options = s[1] /\ localStorage = s[2] /\ getItemRaises = s[3]
    /\ containerEl \in BOOLEAN
    /\ container = <<>>
    /\ loadingDisplay = "initial"
    /\ now = 0
    /\ ticks = 0
    /\ runs = [r \in RunIds |-> NewRun]
    /\ NoPage

SpecEarlier == InitEarlier /\ [][Next]_vars

----------------------------------------------------------------------------
(* The page scripts.  assets/js/script.js publishes the featured flag,     *)
(* constructs the controller, calls init() and arms a watchdog timer; the  *)
(* later page script first fetches assets/data/fallback-videos.json and    *)
(* constructs the controller in the .then or in the .catch handler of that *)
(* fetch.                                                                   *)

ShowFeaturedVideo == FALSE

Published(v) == [defined |-> TRUE, value |-> v]

(* the options both page scripts pass: the key, the handle, the featured   *)
(* flag and (later script, .then handler only) the fallback list           *)
PageOptions(featured, fallback) == Config("KEY", "", "@handle", featured, fallback)

(* this.options before any controller is constructed *)
Unconstructed == Config("", "", "", FALSE, <<>>)

(* data of fallback-videos.json *)
SettingsPayloads ==
    { [showFeaturedVideo |-> f, videos |-> v] :
        f \in BOOLEAN,
        v \in { <<>>, <<ObjEntry("xyz", "Custom", NoUrl), BareEntry("abc123")>> } }

(* an entry left by an earlier page load that cached a record without a    *)
(* thumbnail, and the stores a page load can start from                    *)
PoisonedEntry == SaveToCache(AbsentEntry, NormalizeAll(<<ItemE, ItemC>>), 0, TRUE)
PageStores == {AbsentEntry, PriorEntry, PoisonedEntry}

(* The Instagram part of the DOMContentLoaded handler, which runs before   *)
(* the YouTube part: with the iframe found, onload is registered and the   *)
(* 5000 ms timer set; without it the loading indicator is hidden and both  *)
(* fallbacks are shown at once.                                             *)
InstagramSetup(found, t) ==
    IF found
    THEN [iframe |-> TRUE, loaded |-> FALSE, loading |-> "initial", fallback |-> "initial",
          static |-> "initial", timer |-> [state |-> "check", due |-> t + InstagramDelay]]
    ELSE [iframe |-> FALSE, loaded |-> FALSE, loading |-> "none", fallback |-> "block",
          static |-> "block", timer |-> NoTimer]

InitPage ==
    /\ \E sc \in {"script.js", "fallback-json"} :
          /\ page = [script |-> sc,
                     pc |-> IF sc = "script.js" THEN "constructed" ELSE "fetching"]
          /\ options = IF sc = "script.js" THEN PageOptions(ShowFeaturedVideo, <<>>)
                       ELSE Unconstructed
          /\ youtubeShowFeaturedVideo =
                IF sc = "script.js" THEN Published(ShowFeaturedVideo)
                ELSE [defined |-> FALSE, value |-> FALSE]
          /\ controller \in IF sc = "script.js" THEN {"earlier", "current"} ELSE {"current"}
    /\ localStorage \in PageStores
    /\ getItemRaises = FALSE
    /\ containerEl \in BOOLEAN
    /\ container = <<>>
    /\ loadingDisplay = "initial"
    /\ now = 0
    /\ ticks = 0
    /\ runs = [r \in RunIds |-> NewRun]
    /\ watchdog = NoTimer
    /\ youtubeFallback = "initial"
    /\ youtubeStaticFallback = "initial"
    /\ \E found \in BOOLEAN : instagram = InstagramSetup(found, 0)

(* script.js: youtubeVideos.init() and, when it returned, setTimeout(..., *)
(* 5000); an exception of init() ends the DOMContentLoaded handler before  *)
(* the timer is set                                                         *)
ScriptInit ==
    /\ page = [script |-> "script.js", pc |-> "constructed"]
    /\ InitCall(1)
    /\ IF runs'[1].pc = "Crashed"
       THEN /\ page' = [page EXCEPT !.pc = "threw"]
            /\ UNCHANGED watchdog
       ELSE /\ page' = [page EXCEPT !.pc = "initCalled"]
            /\ watchdog' = [state |-> "check", due |-> now + WatchdogDelay]
    /\ UNCHANGED <<youtubeShowFeaturedVideo, youtubeFallback, youtubeStaticFallback,
                   instagram>>

(* document.querySelector('#youtube-api-container .youtube-videos-grid') *)
GridFound(dom) == \E i \in 1..Len(dom) : dom[i].el = "youtube-videos-grid"

(* the widget shown only when the container has no children at all *)
WatchdogCheckIfEmpty ==
    /\ watchdog.state = "check"
    /\ now >= watchdog.due
    /\ IF container = <<>>
       THEN /\ youtubeFallback' = "block"
            /\ watchdog' = [state |-> "static", due |-> now + StaticFallbackDelay]
       ELSE /\ UNCHANGED youtubeFallback
            /\ watchdog' = [state |-> "done", due |-> 0]
    /\ UNCHANGED <<controller, options, containerEl, container, loadingDisplay,
                   localStorage, getItemRaises, now, ticks, runs, page,
                   youtubeShowFeaturedVideo, youtubeStaticFallback, instagram>>

(* the callback of the 5000 ms timer.  The setInterval it starts only      *)
(* reads the iframe and clears itself.                                      *)
WatchdogCheck ==
    /\ watchdog.state = "check"
    /\ now >= watchdog.due
    /\ IF ~GridFound(container)
       THEN /\ youtubeFallback' = "block"
            /\ watchdog' = [state |-> "static", due |-> now + StaticFallbackDelay]
       ELSE /\ UNCHANGED youtubeFallback
            /\ watchdog' = [state |-> "done", due |-> 0]
    /\ UNCHANGED <<controller, options, containerEl, container, loadingDisplay,
                   localStorage, getItemRaises, now, ticks, runs, page,
                   youtubeShowFeaturedVideo, youtubeStaticFallback, instagram>>

(* the callback of the 3000 ms timer: the static fallback is shown unless  *)
(* the iframe of the secondary widget is readable and has content          *)
StaticFallbackCheck(frameHasContent) ==
    /\ watchdog.state = "static"
    /\ now >= watchdog.due
    /\ youtubeStaticFallback' = IF frameHasContent THEN youtubeStaticFallback ELSE "block"
    /\ watchdog' = [state |-> "done", due |-> 0]
    /\ UNCHANGED <<controller, options, containerEl, container, loadingDisplay,
                   localStorage, getItemRaises, now, ticks, runs, page,
                   youtubeShowFeaturedVideo, youtubeFallback, instagram>>

(* instagramIframe.onload *)
InstagramLoad ==
    /\ instagram.iframe
    /\ ~instagram.loaded
    /\ ~InHandler
    /\ instagram' = [instagram EXCEPT !.loaded = TRUE, !.loading = "none"]
    /\ UNCHANGED <<controller, options, containerEl, container, loadingDisplay,
                   localStorage, getItemRaises, now, ticks, runs, page,
                   youtubeShowFeaturedVideo, watchdog, youtubeFallback,
                   youtubeStaticFallback>>

(* the fallback shown whether or not the iframe has loaded *)
InstagramTimerUnconditional ==
    /\ instagram.timer.state = "check"
    /\ now >= instagram.timer.due
    /\ ~InHandler
    /\ instagram' = [instagram EXCEPT
                        !.loading = "none", !.fallback = "block",
                        !.timer = [state |-> "static", due |-> now + InstagramStaticDelay]]
    /\ UNCHANGED <<controller, options, containerEl, container, loadingDisplay,
                   localStorage, getItemRaises, now, ticks, runs, page,
                   youtubeShowFeaturedVideo, watchdog, youtubeFallback,
                   youtubeStaticFallback>>

(* the callback of the 5000 ms Instagram timer *)
InstagramTimer ==
    /\ instagram.timer.state = "check"
    /\ now >= instagram.timer.due
    /\ ~InHandler
    /\ instagram' =
          IF instagram.loading # "none"
          THEN [instagram EXCEPT
                  !.loading = "none", !.fallback = "block",
                  !.timer = [state |-> "static", due |-> now + InstagramStaticDelay]]
          ELSE [instagram EXCEPT !.timer = [state |-> "done", due |-> 0]]
    /\ UNCHANGED <<controller, options, containerEl, container, loadingDisplay,
                   localStorage, getItemRaises, now, ticks, runs, page,
                   youtubeShowFeaturedVideo, watchdog, youtubeFallback,
                   youtubeStaticFallback>>

(* the callback of the 3000 ms Instagram timer *)
InstagramStaticTimer ==
    /\ instagram.timer.state = "static"
    /\ now >= instagram.timer.due
    /\ ~InHandler
    /\ instagram' = [instagram EXCEPT !.static = "block",
                                      !.timer = [state |-> "done", due |-> 0]]
    /\ UNCHANGED <<controller, options, containerEl, container, loadingDisplay,
                   localStorage, getItemRaises, now, ticks, runs, page,
                   youtubeShowFeaturedVideo, watchdog, youtubeFallback,
                   youtubeStaticFallback>>

(* .then(data => ...) up to the construction of the controller *)
SettingsLoaded(data) ==
    /\ page = [script |-> "fallback-json", pc |-> "fetching"]
    /\ youtubeShowFeaturedVideo' = Published(data.showFeaturedVideo)
    /\ options' = PageOptions(data.showFeaturedVideo, data.videos)
    /\ page' = [page EXCEPT !.pc = "then"]
    /\ UNCHANGED <<controller, containerEl, container, loadingDisplay, localStorage,
                   getItemRaises, now, ticks, runs, watchdog, youtubeFallback,
                   youtubeStaticFallback, instagram>>

(* ... and its youtubeVideos.init(); an exception of init() rejects the    *)
(* promise the .catch handler is attached to                                *)
ThenInit ==
    /\ page = [script |-> "fallback-json", pc |-> "then"]
    /\ InitCall(1)
    /\ page' = [page EXCEPT !.pc = IF runs'[1].pc = "Crashed" THEN "rejected"
                                   ELSE "thenDone"]
    /\ UNCHANGED <<youtubeShowFeaturedVideo, watchdog, youtubeFallback,
                   youtubeStaticFallback, instagram>>

(* the flag left as it was *)
SettingsCatchFlagKept ==
    /\ page.script = "fallback-json"
    /\ page.pc \in {"fetching", "rejected"}
    /\ UNCHANGED youtubeShowFeaturedVideo
    /\ options' = PageOptions(FALSE, <<>>)
    /\ page' = [page EXCEPT !.pc = "catch"]
    /\ UNCHANGED <<controller, containerEl, container, loadingDisplay, localStorage,
                   getItemRaises, now, ticks, runs, watchdog, youtubeFallback,
                   youtubeStaticFallback, instagram>>

(* .catch(error => ...) up to the construction of the controller: entered  *)
(* when the fetch or response.json() fails, or when the .then handler      *)
(* raised                                                                   *)
SettingsCatch ==
    /\ page.script = "fallback-json"
    /\ page.pc \in {"fetching", "rejected"}
    /\ youtubeShowFeaturedVideo' = Published(FALSE)
    /\ options' = PageOptions(FALSE, <<>>)
    /\ page' = [page EXCEPT !.pc = "catch"]
    /\ UNCHANGED <<controller, containerEl, container, loadingDisplay, localStorage,
                   getItemRaises, now, ticks, runs, watchdog, youtubeFallback,
                   youtubeStaticFallback, instagram>>

(* ... and its youtubeVideos.init() *)
CatchInit ==
    /\ page = [script |-> "fallback-json", pc |-> "catch"]
    /\ \E r \in RunIds : InitCall(r)
    /\ page' = [page EXCEPT !.pc = "catchDone"]
    /\ UNCHANGED <<youtubeShowFeaturedVideo, watchdog, youtubeFallback,
                   youtubeStaticFallback, instagram>>

NextPage ==
    \/ ScriptInit
    \/ WatchdogCheck
    \/ \E frameHasContent \in BOOLEAN : StaticFallbackCheck(frameHasContent)
    \/ \E data \in SettingsPayloads : SettingsLoaded(data)
    \/ ThenInit
    \/ SettingsCatch
    \/ CatchInit
    \/ InstagramLoad
    \/ InstagramTimer
    \/ InstagramStaticTimer
    \/ \E r \in RunIds, o \in LookupOutcomes : UsernameResponse(r, o)
    \/ \E r \in RunIds, o \in LookupOutcomes : SearchResponse(r, o)
    \/ \E r \in RunIds, o \in ChannelOutcomes : ChannelResponse(r, o)
    \/ \E r \in RunIds, o \in PlaylistOutcomes, items \in PlaylistPayloads, putOk \in BOOLEAN :
          PlaylistResponse(r, o, items, putOk)
    \/ \E d \in TickSteps : Tick(d)

SpecPage == InitPage /\ [][NextPage]_vars

----------------------------------------------------------------------------
(* Vocabulary of the properties *)

Kept(r) == runs[r].pc \notin {"idle", "retired"}
Waiting(run) == run.pc \in {"waitUsername", "waitSearch", "waitChannel", "waitPlaylist"}
CacheMiss(run) == run.cache \in {"absent", "expired", "readError", "unreadable"}
NoRecords(run) == run.fetch = "fail" \/ (run.fetch = "ok" /\ Len(run.fetched) = 0)
Ids(videos) == [i \in 1..Len(videos) |-> videos[i].id]
FallbackIds == [i \in 1..Len(options.fallbackVideos) |-> options.fallbackVideos[i].id]

----------------------------------------------------------------------------
(* C1: a run that finds an entry with capturedAt + ttl > now renders        *)
(* exactly the cached records in stored order, issues no network request   *)
(* and ends in Rendered.                                                    *)
C1_CacheHitRendersCached ==
    \A r \in RunIds :
        (Kept(r) /\ runs[r].age = "before") =>
            /\ runs[r].pc = "Rendered"
            /\ runs[r].rendered = runs[r].afterCheck.videos
            /\ runs[r].reqs = <<>>

(* C2: a run with a cache miss whose fetch returned N >= 1 records ends    *)
(* with the store holding exactly those N records in order, in Rendered,   *)
(* showing those records (stated here for the runs whose setItem did not   *)
(* throw; the claim covers every run, so it fails wherever this does).     *)
C2_FetchedStoredAndRendered ==
    \A r \in RunIds :
        (Kept(r) /\ CacheMiss(runs[r]) /\ runs[r].fetch = "ok"
            /\ Len(runs[r].fetched) >= 1 /\ ~runs[r].putFailed) =>
            /\ runs[r].endStore.present
            /\ Ids(runs[r].endStore.videos) = Ids(runs[r].fetched)
            /\ runs[r].pc = "Rendered"
            /\ runs[r].rendered = runs[r].fetched

(* C3: a run with a cache miss whose fetch produced no records (empty or   *)
(* failed), with F >= 1 fallback entries configured, ends in Rendered      *)
(* showing the F fallback records in configured order and never shows the  *)
(* error view.                                                              *)
C3_FallbackRendered ==
    \A r \in RunIds :
        (Kept(r) /\ CacheMiss(runs[r]) /\ NoRecords(runs[r])
            /\ Len(options.fallbackVideos) >= 1) =>
            /\ runs[r].pc = "Rendered"
            /\ runs[r].source = "fallback"
            /\ Ids(runs[r].rendered) = FallbackIds
            /\ runs[r].error = "none"

(* C4: a run that ends by rendering fallback records performed no cache    *)
(* write, and fallback records never appear in the store.                   *)
C4_FallbackNeverCached ==
    /\ \A r \in RunIds :
          (Kept(r) /\ runs[r].pc = "Rendered" /\ runs[r].source = "fallback") =>
              runs[r].writes = 0
    /\ \A i \in 1..Len(localStorage.videos) :
          localStorage.videos[i].channelTitle # FallbackChannelTitle

(* C5: in ErrorShown the message is 'No videos found' exactly when the     *)
(* fetch succeeded with zero items and 'Failed to load videos' exactly     *)
(* when the fetch chain failed; the error view links to the channel page.  *)
C5_ErrorMessageReflectsCause ==
    \A r \in RunIds :
        (Kept(r) /\ runs[r].pc = "ErrorShown") =>
            /\ (runs[r].error = "No videos found") <=>
                   (runs[r].fetch = "ok" /\ Len(runs[r].fetched) = 0)
            /\ (runs[r].error = "Failed to load videos") <=> (runs[r].fetch = "fail")
            /\ ShowError(runs[r].error)[1].href = ChannelLink

(* C6: a run shows the error view only if it had a cache miss, its fetch   *)
(* produced no records and fallback composition produced zero records.      *)
C6_ErrorOnlyAfterExhaustion ==
    \A r \in RunIds :
        (Kept(r) /\ runs[r].error # "none") =>
            /\ CacheMiss(runs[r])
            /\ NoRecords(runs[r])
            /\ Len(options.fallbackVideos) = 0

(* C7 as stated: an entry with capturedAt + ttl <= now, the boundary       *)
(* instant included, is removed and reported as a miss.                     *)
C7_ExpiredAtBoundaryEvicted ==
    \A r \in RunIds :
        (Kept(r) /\ runs[r].age \in {"at", "after"}) =>
            /\ runs[r].cache = "expired"
            /\ ~runs[r].afterCheck.present

(* C7 amended: an entry with capturedAt + ttl < now is removed and         *)
(* reported as a miss, and the run proceeds to Loading; an entry is served *)
(* while now <= capturedAt + ttl, the boundary instant included.            *)
C7_ExpiredEvictedServedUntilBoundary ==
    \A r \in RunIds :
        Kept(r) =>
            /\ runs[r].age = "after" =>
                  /\ runs[r].cache = "expired"
                  /\ ~runs[r].afterCheck.present
                  /\ Len(runs[r].trace) >= 3 /\ runs[r].trace[3] = "Loading"
                  /\ Len(runs[r].reqs) >= 1
            /\ runs[r].age \in {"before", "at"} =>
                  /\ runs[r].cache = "hit"
                  /\ runs[r].afterCheck.present
                  /\ runs[r].reqs = <<>>

C7_Witness ==
    \E r \in RunIds :
        /\ runs[r].age = "after" /\ runs[r].cache = "expired"
        /\ runs[r].pc = "Rendered" /\ runs[r].source = "api"

(* C8: after a run that fetched, stored and rendered N >= 1 records, the   *)
(* next run within the TTL renders records equal field by field (the       *)
(* publication timestamp's value and kind included) and issues no network  *)
(* request.                                                                 *)
C8_CacheRoundTrip ==
    \A r \in RunIds :
        (r > 1 /\ Kept(r) /\ Kept(r - 1)
            /\ runs[r - 1].pc = "Rendered" /\ runs[r - 1].source = "api"
            /\ runs[r - 1].writes = 1
            /\ runs[r].age = "before"
            /\ runs[r].afterCheck = runs[r - 1].endStore) =>
            /\ runs[r].pc = "Rendered"
            /\ runs[r].rendered = runs[r - 1].rendered
            /\ runs[r].reqs = <<>>

(* C9: a run follows only the transitions Init -> CacheCheck ->            *)
(* {Rendered | Loading -> {Rendered | FallbackCheck -> {Rendered |         *)
(* ErrorShown}}}, and once in Rendered or ErrorShown it performs no        *)
(* further cache write, network request or render.                          *)
AllowedTraces ==
    { <<"Init">>,
      <<"Init", "CacheCheck">>,
      <<"Init", "CacheCheck", "Rendered">>,
      <<"Init", "CacheCheck", "Loading">>,
      <<"Init", "CacheCheck", "Loading", "Rendered">>,
      <<"Init", "CacheCheck", "Loading", "FallbackCheck">>,
      <<"Init", "CacheCheck", "Loading", "FallbackCheck", "Rendered">>,
      <<"Init", "CacheCheck", "Loading", "FallbackCheck", "ErrorShown">> }

IsPrefix(s, t) == Len(s) <= Len(t) /\ SubSeq(t, 1, Len(s)) = s

TraceAllowed ==
    \A r \in RunIds :
        Kept(r) =>
            /\ runs[r].trace \in AllowedTraces
            /\ runs[r].pc \in {"Rendered", "ErrorShown"} <=>
                   runs[r].trace[Len(runs[r].trace)] \in {"Rendered", "ErrorShown"}
            /\ runs[r].pc \in {"Rendered", "ErrorShown"} =>
                   runs[r].trace[Len(runs[r].trace)] = runs[r].pc

RunStep ==
    \A r \in RunIds :
        Kept(r) =>
            \/ runs'[r].pc = "retired"
            \/ /\ IsPrefix(runs[r].trace, runs'[r].trace)
               /\ runs[r].pc \in {"Rendered", "ErrorShown"} => runs'[r] = runs[r]

C10_SettledRunIsTerminal ==
    \A r \in RunIds :
        (Kept(r) /\ ConfigValid /\ ~Waiting(runs[r])) =>
            runs[r].pc \in {"Rendered", "ErrorShown"}

(* C11: with an invalid configuration (render target not found, API key    *)
(* missing, or neither channelId nor channelUsername) init() returns       *)
(* without issuing a request, without reading, writing or evicting the     *)
(* cache entry and without changing the render target or the loading       *)
(* indicator.                                                               *)
InvalidConfiguration ==
    \/ ~containerEl
    \/ options.apiKey = ""
    \/ (options.channelId = "" /\ options.channelUsername = "")

C11_AbortedRunsTouchNothing ==
    InvalidConfiguration =>
        /\ container = <<>>
        /\ loadingDisplay = "initial"
        /\ \A r \in RunIds :
              Kept(r) =>
                  /\ runs[r].pc = "aborted"
                  /\ runs[r].reqs = <<>>
                  /\ runs[r].cache = "none"
                  /\ runs[r].writes = 0
                  /\ runs[r].renders = 0

C11_AbortStep ==
    \A r \in RunIds :
        (InvalidConfiguration /\ runs[r].pc = "idle" /\ runs'[r].pc # "idle") =>
            /\ runs'[r].pc = "aborted"
            /\ UNCHANGED <<localStorage, container, loadingDisplay>>

C11_InvalidConfigAborts == []C11_AbortedRunsTouchNothing /\ [][C11_AbortStep]_vars

C11_Witness ==
    \E r \in RunIds :
        /\ runs[r].pc = "aborted"
        /\ options.apiKey = "" /\ containerEl
        /\ localStorage = PriorEntry
        /\ IsExpired(now, localStorage.timestamp)

(* C12 as stated: a configuration that supplies both channelId and         *)
(* channelUsername is rejected like one that supplies neither.              *)
C12_BothRejected ==
    \A r \in RunIds :
        (Kept(r) /\ options.channelId # "" /\ options.channelUsername # "") =>
            /\ runs[r].pc = "aborted"
            /\ runs[r].cache = "none"
            /\ runs[r].reqs = <<>>

(* C12 amended: validation requires at least one of channelId and          *)
(* channelUsername: with the render target found and the API key set, a    *)
(* configuration that supplies both is accepted and the run goes on to the *)
(* cache check; only one that supplies neither is rejected (no cache       *)
(* check, no request, no render).                                           *)
C12_AtLeastOneChannelField ==
    \A r \in RunIds :
        (Kept(r) /\ containerEl /\ options.apiKey # "") =>
            /\ (options.channelId # "" /\ options.channelUsername # "") =>
                  /\ runs[r].pc # "aborted"
                  /\ runs[r].cache # "none"
                  /\ Len(runs[r].trace) >= 2 /\ runs[r].trace[2] = "CacheCheck"
            /\ (options.channelId = "" /\ options.channelUsername = "") =>
                  /\ runs[r].pc = "aborted"
                  /\ runs[r].cache = "none"
                  /\ runs[r].reqs = <<>>
                  /\ runs[r].renders = 0

C12_Witness ==
    \E r \in RunIds :
        /\ options.channelId # "" /\ options.channelUsername # ""
        /\ runs[r].cache = "expired"
        /\ runs[r].pc = "Rendered" /\ runs[r].source = "api"

(* C13: if any step of the fetch chain fails, a response item lacking every *)
(* thumbnail variant included, the run treats the fetch as one failure: no *)
(* fetched record is rendered, nothing is written to the cache and the run *)
(* goes to FallbackCheck.                                                   *)
C13_AllOrNothingFetch ==
    \A r \in RunIds :
        (Kept(r) /\ CacheMiss(runs[r])
            /\ \/ runs[r].fetch = "fail"
               \/ \E i \in 1..Len(runs[r].fetched) : ~runs[r].fetched[i].thumbnail.defined) =>
            /\ runs[r].writes = 0
            /\ runs[r].source # "api"
            /\ \E i \in 1..Len(runs[r].trace) : runs[r].trace[i] = "FallbackCheck"

----------------------------------------------------------------------------
(* Vocabulary of the fetch chain *)

Endpoints(reqs) == [i \in 1..Len(reqs) |-> reqs[i][1]]
Asks(run, endpoint) == \E i \in 1..Len(run.reqs) : run.reqs[i][1] = endpoint
Entered(run, state) == \E i \in 1..Len(run.trace) : run.trace[i] = state
FailureOutcomes == {"reject", "notOk"}

(* a request of run r is answered by a rejection or a non-success status *)
RequestFails(r) ==
    \E o \in FailureOutcomes :
        \/ UsernameResponse(r, o)
        \/ SearchResponse(r, o)
        \/ ChannelResponse(r, o)
        \/ \E items \in PlaylistPayloads, putOk \in BOOLEAN : PlaylistResponse(r, o, items, putOk)

(* the channel identifier could not be resolved *)
ResolutionFails(r) ==
    \/ \E o \in FailureOutcomes : UsernameResponse(r, o)
    \/ \E o \in FailureOutcomes \cup {"empty"} : SearchResponse(r, o)

(* C14: within one run each endpoint (username lookup, search lookup,      *)
(* channel details, playlist items) is requested at most once, and after a *)
(* request has failed the run issues no further request.                    *)
C14_EndpointsOnce ==
    \A r \in RunIds :
        Kept(r) =>
            \A i, j \in 1..Len(runs[r].reqs) :
                i # j => runs[r].reqs[i][1] # runs[r].reqs[j][1]

C14_NoRequestAfterFailure ==
    \A r \in RunIds :
        /\ RequestFails(r) => (runs'[r].reqs = runs[r].reqs /\ Finished(runs'[r]))
        /\ (Finished(runs[r]) /\ runs'[r].pc # "retired") => runs'[r].reqs = runs[r].reqs

C14_NoRetries == []C14_EndpointsOnce /\ [][C14_NoRequestAfterFailure]_vars

C14_Witness ==
    \E r \in RunIds :
        /\ Endpoints(runs[r].reqs) =
              <<"channels.forUsername", "search", "channels.id", "playlistItems">>
        /\ runs[r].fetch = "fail"

(* C15: with a channelId configured the run issues neither the username    *)
(* lookup nor the search lookup, and the channel-details request is made   *)
(* for exactly the configured identifier.                                   *)
C15_ConfiguredIdUsedUnchanged ==
    \A r \in RunIds :
        (Kept(r) /\ options.channelId # "") =>
            /\ ~Asks(runs[r], "channels.forUsername")
            /\ ~Asks(runs[r], "search")
            /\ \A i \in 1..Len(runs[r].reqs) :
                  runs[r].reqs[i][1] = "channels.id" =>
                      runs[r].reqs[i] = Request("channels.id", options.channelId)
            /\ Entered(runs[r], "Loading") => runs[r].reqs[1][1] = "channels.id"

C15_Witness ==
    \E r \in RunIds :
        /\ options.channelId # "" /\ options.channelUsername # ""
        /\ runs[r].reqs = <<Request("channels.id", options.channelId),
                            Request("playlistItems", "UUuploads")>>

(* C16: with only channelUsername configured the username lookup is issued *)
(* first; the search lookup is issued only after the username lookup       *)
(* answered successfully with no items, and the channel of the first       *)
(* search match is then used; after a username lookup that returned a      *)
(* channel the search lookup is never issued.                               *)
C16_LookupOrder ==
    \A r \in RunIds :
        (Kept(r) /\ options.channelId = "" /\ Entered(runs[r], "Loading")) =>
            /\ runs[r].reqs[1] = Request("channels.forUsername", options.channelUsername)
            /\ \A i \in 1..Len(runs[r].reqs) :
                  /\ runs[r].reqs[i][1] = "search" => i = 2
                  /\ runs[r].reqs[i][1] = "channels.id" =>
                        \/ i = 2 /\ runs[r].reqs[i][2] = "UCuser"
                        \/ i = 3 /\ runs[r].reqs[2][1] = "search"
                                 /\ runs[r].reqs[i][2] = "UCsearch"

C16_SearchOnlyAfterEmpty ==
    \A r \in RunIds :
        /\ (~Asks(runs[r], "search") /\ Asks(runs'[r], "search")) =>
              UsernameResponse(r, "empty")
        /\ UsernameResponse(r, "found") =>
              runs'[r].reqs = Append(runs[r].reqs, Request("channels.id", "UCuser"))
        /\ \A o \in FailureOutcomes :
              UsernameResponse(r, o) => ~Asks(runs'[r], "search")

C16_UsernameThenSearch == []C16_LookupOrder /\ [][C16_SearchOnlyAfterEmpty]_vars

C16_Witness ==
    \E r \in RunIds :
        /\ runs[r].reqs = <<Request("channels.forUsername", "@handle"),
                            Request("search", "handle"),
                            Request("channels.id", "UCsearch"),
                            Request("playlistItems", "UUuploads")>>
        /\ runs[r].pc = "Rendered" /\ runs[r].source = "api"

(* C17: when resolution fails (both lookups without result, or a lookup    *)
(* call failing) the run issues no channel-details and no playlist-items    *)
(* request and makes the fallback attempt with the 'Failed to load videos' *)
(* cause; the resolution error does not leave the promise chain.            *)
C17_ResolutionFailureStep ==
    \A r \in RunIds :
        ResolutionFails(r) =>
            /\ ~Asks(runs'[r], "channels.id")
            /\ ~Asks(runs'[r], "playlistItems")
            /\ runs'[r].reqs = runs[r].reqs
            /\ runs'[r].fetch = "fail"
            /\ Entered(runs'[r], "FallbackCheck")
            /\ runs'[r].error \in {"none", "Failed to load videos"}
            /\ ~FallbackConfigured =>
                  (runs'[r].pc = "ErrorShown" /\ runs'[r].error = "Failed to load videos")
            /\ runs'[r].pc = "Crashed" => CreateFallbackThrows

C17_ResolutionFailureToFallback == [][C17_ResolutionFailureStep]_vars

C17_Witness ==
    \E r \in RunIds :
        /\ Endpoints(runs[r].reqs) = <<"channels.forUsername", "search">>
        /\ runs[r].fetch = "fail"
        /\ runs[r].pc = "ErrorShown"

(* C18: when setItem raises after a fetch of N >= 1 records, the run still *)
(* renders those N records and ends in Rendered, and the fallback attempt  *)
(* is not made.                                                             *)
C18_PutFailureNonFatal ==
    \A r \in RunIds :
        (Kept(r) /\ runs[r].putFailed /\ runs[r].fetch = "ok"
            /\ Len(runs[r].fetched) >= 1) =>
            /\ runs[r].pc = "Rendered"
            /\ runs[r].source = "api"
            /\ runs[r].rendered = runs[r].fetched
            /\ ~Entered(runs[r], "FallbackCheck")
            /\ runs[r].writes = 0

(* C19: when getItem raises, or the stored value cannot be parsed, the     *)
(* cache get reports a miss and the run goes on to Loading and the first   *)
(* request of the fetch chain, as it does when no entry exists; the stored *)
(* value is left as it was.                                                 *)
C19_UnreadableIsMiss ==
    \A r \in RunIds :
        (Kept(r) /\ runs[r].age \in {"unread", "unreadable"}) =>
            /\ runs[r].cache \in {"readError", "unreadable"}
            /\ Len(runs[r].trace) >= 3
            /\ runs[r].trace[3] = "Loading"
            /\ Len(runs[r].reqs) >= 1
            /\ runs[r].reqs[1] = FirstRequest

C19_MissStep ==
    \A r \in RunIds :
        (runs[r].pc = "idle" /\ runs'[r].age \in {"unread", "unreadable"}) =>
            /\ localStorage' = localStorage
            /\ loadingDisplay' = "flex"

C19_ReadFailureNonFatal == []C19_UnreadableIsMiss /\ [][C19_MissStep]_vars

C19_Witness ==
    \E r \in RunIds :
        /\ runs[r].age = "unreadable"
        /\ runs[r].pc = "Rendered" /\ runs[r].source = "api"
        /\ localStorage.parses

(* C20: for a fallback list of F entries, each a bare identifier or an     *)
(* object {id, title?, url?}, createFallbackVideos returns F records, the  *)
(* i-th with the i-th entry's identifier, and issues no request.            *)
C20_OneRecordPerEntry ==
    /\ ~CreateFallbackThrows =>
          /\ Len(CreateFallbackVideos(now)) = Len(options.fallbackVideos)
          /\ Ids(CreateFallbackVideos(now)) = FallbackIds
    /\ \A r \in RunIds :
          (Kept(r) /\ runs[r].source = "fallback") =>
              /\ Len(runs[r].rendered) = Len(options.fallbackVideos)
              /\ Ids(runs[r].rendered) = FallbackIds

C20_CompositionStep ==
    \A r \in RunIds :
        (Kept(r) /\ ~Entered(runs[r], "FallbackCheck") /\ Entered(runs'[r], "FallbackCheck")) =>
            runs'[r].reqs = runs[r].reqs

C20_FallbackComposition == []C20_OneRecordPerEntry /\ [][C20_CompositionStep]_vars

C20_Witness ==
    \E r \in RunIds :
        /\ runs[r].pc = "Rendered" /\ runs[r].source = "fallback"
        /\ Ids(runs[r].rendered) = <<"xyz", "abc123">>
        /\ options.fallbackVideos[1].type = "object"
        /\ options.fallbackVideos[2].type = "string"

----------------------------------------------------------------------------
(* C21: the record of the fallback entry at position p with identifier x   *)
(* has the entry's title when given and "Video p" otherwise, the entry's   *)
(* url when given and https://www.youtube.com/watch?v=x otherwise, and the *)
(* thumbnail https://i.ytimg.com/vi/x/hqdefault.jpg whatever the entry's   *)
(* other fields.                                                            *)
DefaultTitle(p) == IF p = 1 THEN "Video 1" ELSE IF p = 2 THEN "Video 2" ELSE "Video 3"

C21_FallbackRecordFields ==
    \A r \in RunIds :
        (Kept(r) /\ runs[r].source = "fallback") =>
            \A p \in 1..Len(runs[r].rendered) :
                LET entry == options.fallbackVideos[p]
                    rec == runs[r].rendered[p]
                IN  /\ rec.title = IF entry.title # "" THEN entry.title ELSE DefaultTitle(p)
                    /\ rec.url = IF entry.url # <<>> THEN entry.url
                                 ELSE <<"https://www.youtube.com/watch?v=", entry.id>>
                    /\ rec.thumbnail.url =
                          <<"https://i.ytimg.com/vi/", entry.id, "/hqdefault.jpg">>

C21_Witness ==
    \E r \in RunIds :
        /\ runs[r].pc = "Rendered" /\ runs[r].source = "fallback"
        /\ Len(runs[r].rendered) = 2
        /\ runs[r].rendered[1].title = "Custom"
        /\ runs[r].rendered[2].title = "Video 2"
        /\ runs[r].rendered[2].url = <<"https://www.youtube.com/watch?v=", "abc123">>

(* C22: fallback composition does not raise: for a fallback list holding a *)
(* null entry it yields no records, so a run whose fetch gave no records   *)
(* ends in ErrorShown with the loading indicator hidden.                    *)
C22_MalformedFallbackEndsInError ==
    \A r \in RunIds :
        (Kept(r) /\ CacheMiss(runs[r]) /\ NoRecords(runs[r])
            /\ \E i \in 1..Len(options.fallbackVideos) : options.fallbackVideos[i].isNull) =>
            /\ runs[r].pc = "ErrorShown"
            /\ runs[r].rendered = <<>>

----------------------------------------------------------------------------
(* Vocabulary of the render target *)

HasElement(dom, el) == \E i \in 1..Len(dom) : dom[i].el = el
ElementOf(dom, el) == dom[CHOOSE i \in 1..Len(dom) : dom[i].el = el]
Images(cards) == [i \in 1..Len(cards) |-> cards[i].img]
Thumbs(videos) == [i \in 1..Len(videos) |-> videos[i].thumbnail.url]
Tail1(videos) == [i \in 1..(Len(videos) - 1) |-> videos[i + 1]]

(* run r ends a call of renderVideos() or showError() in this step *)
BecomesRendered(r) == runs[r].pc # "Rendered" /\ runs'[r].pc = "Rendered"
BecomesTerminal(r) ==
    /\ runs[r].pc \notin {"Rendered", "ErrorShown"}
    /\ runs'[r].pc \in {"Rendered", "ErrorShown"}

(* C23: a rendered result of K >= 1 records shows, with featuredVideo set, *)
(* one featured record (the first) and a grid of the other K - 1 in their  *)
(* order; with featuredVideo unset, a grid of all K in order and no        *)
(* featured record.                                                         *)
C23_LayoutStep ==
    \A r \in RunIds :
        (BecomesRendered(r) /\ Len(runs'[r].rendered) >= 1) =>
            LET shown == runs'[r].rendered
                grid == ElementOf(container', "youtube-videos-grid")
            IN  /\ HasElement(container', "youtube-videos-grid")
                /\ options.featuredVideo =>
                      /\ HasElement(container', "youtube-featured-video")
                      /\ Images(ElementOf(container', "youtube-featured-video").cards)
                            = <<shown[1].thumbnail.url>>
                      /\ Images(grid.cards) = Thumbs(Tail1(shown))
                /\ ~options.featuredVideo =>
                      /\ ~HasElement(container', "youtube-featured-video")
                      /\ Images(grid.cards) = Thumbs(shown)

C23_FeaturedLayout == [][C23_LayoutStep]_vars

C23_Witness ==
    \E r \in RunIds :
        /\ runs[r].pc = "Rendered" /\ runs[r].source = "api"
        /\ options.featuredVideo
        /\ Len(runs[r].rendered) = 2
        /\ HasElement(container, "youtube-featured-video")
        /\ Len(ElementOf(container, "youtube-videos-grid").cards) = 1

(* C24: normalisation takes the high thumbnail whenever it is offered, the *)
(* medium one only when high is absent, and the default one only when both *)
(* are absent.                                                              *)
OfferedBy(id) ==
    (CHOOSE item \in {ItemA, ItemB, ItemC, ItemD, ItemE} : item.videoId = id).thumbs

C24_ThumbnailPriority ==
    \A r \in RunIds :
        Kept(r) =>
            \A i \in 1..Len(runs[r].fetched) :
                LET rec == runs[r].fetched[i]
                    offered == OfferedBy(rec.id)
                IN  /\ "high" \in offered => rec.thumbnail.url = <<"thumb", rec.id, "high">>
                    /\ ("high" \notin offered /\ "medium" \in offered) =>
                          rec.thumbnail.url = <<"thumb", rec.id, "medium">>
                    /\ (offered = {"default"}) =>
                          rec.thumbnail.url = <<"thumb", rec.id, "default">>

C24_Witness ==
    \E r \in RunIds :
        /\ Len(runs[r].fetched) = 2
        /\ runs[r].fetched[1].thumbnail.url = <<"thumb", "vidA", "high">>
        /\ runs[r].fetched[2].thumbnail.url = <<"thumb", "vidB", "medium">>

(* what the render target holds after renderVideos(videos) returned, and   *)
(* after showError(message)                                                 *)
ShowsOnly(dom, videos) ==
    /\ Len(dom) = IF options.featuredVideo THEN 4 ELSE 3
    /\ dom[1].el = "youtube-channel-info"
    /\ dom[Len(dom) - 1].el = "youtube-videos-grid"
    /\ dom[Len(dom)].el = "youtube-view-more"
    /\ options.featuredVideo =>
          /\ dom[2].el = "youtube-featured-video"
          /\ Images(dom[2].cards) = <<videos[1].thumbnail.url>>
    /\ Images(dom[Len(dom) - 1].cards) =
          IF options.featuredVideo THEN Thumbs(Tail1(videos)) ELSE Thumbs(videos)

ShowsOnlyError(dom, message) ==
    /\ Len(dom) = 1
    /\ dom[1].el = "youtube-error"
    /\ dom[1].text = message

ShowsOutputOf(dom, run) ==
    \/ run.pc = "Rendered" /\ ShowsOnly(dom, run.rendered)
    \/ run.pc = "ErrorShown" /\ ShowsOnlyError(dom, run.error)

(* C25: after a render or an error display the render target holds the     *)
(* output of that call and nothing else, and rendering the result that is  *)
(* on display once more leaves the render target as it is.                  *)
C25_ReplaceStep ==
    \A r \in RunIds :
        BecomesTerminal(r) =>
            /\ ShowsOutputOf(container', runs'[r])
            /\ loadingDisplay' = "none"
            /\ \A q \in RunIds \ {r} :
                  (/\ runs[q].pc = runs'[r].pc
                   /\ runs[q].rendered = runs'[r].rendered
                   /\ runs[q].error = runs'[r].error
                   /\ ShowsOutputOf(container, runs[q])) => container' = container

C25_RenderReplaces == [][C25_ReplaceStep]_vars

C25_Witness ==
    \E r, q \in RunIds :
        /\ r # q
        /\ runs[r].pc = "Rendered" /\ runs[q].pc = "Rendered"
        /\ runs[r].source = "api" /\ runs[q].source = "cache"
        /\ ShowsOnly(container, runs[q].rendered)

(* C26: of two overlapping runs, the one whose fetch chain completes last  *)
(* leaves its output in the render target, whichever started first and     *)
(* whatever the outcome of the other (here: the run started first          *)
(* completes after the run started second has shown its result).            *)
C26_LastStep ==
    \A r, q \in RunIds :
        (/\ r < q
         /\ Waiting(runs[r]) /\ ~Waiting(runs'[r])
         /\ Entered(runs[q], "Loading") /\ runs[q].pc \in {"Rendered", "ErrorShown"}
         /\ runs'[q] = runs[q]) =>
            ShowsOutputOf(container', runs'[r])

C26_LastCompletedWins == [][C26_LastStep]_vars

(* C27: at its one check, 5000 ms or more after it was armed, the watchdog *)
(* makes the secondary fallback widget visible exactly when the render     *)
(* target holds no video grid at that instant; neither timer callback      *)
(* changes the render target or the cache.                                  *)
WatchdogChecks == watchdog.state = "check" /\ watchdog'.state # "check"
TimerFires == watchdog.state \in {"check", "static"} /\ watchdog' # watchdog

C27_CheckStep ==
    /\ WatchdogChecks =>
          /\ now >= watchdog.due
          /\ youtubeFallback # "block"
          /\ (youtubeFallback' = "block") <=> ~HasElement(container, "youtube-videos-grid")
    /\ TimerFires => (container' = container /\ localStorage' = localStorage)

C27_WatchdogShowsWidgetIffNoGrid == [][C27_CheckStep]_vars

C27_Witness ==
    /\ watchdog.state = "static"
    /\ youtubeFallback = "block"
    /\ runs[1].pc = "ErrorShown"
    /\ HasElement(container, "youtube-error")

(* C28: at every init() call made by a page script the published           *)
(* window.youtubeShowFeaturedVideo equals options.featuredVideo of the     *)
(* controller whose init() is called, in the .then path and in the .catch  *)
(* path of the settings fetch alike.                                        *)
InitInvoked == \E r \in RunIds : runs[r].pc = "idle" /\ runs'[r].pc # "idle"

C28_InvokeStep ==
    InitInvoked =>
        /\ youtubeShowFeaturedVideo.defined
        /\ youtubeShowFeaturedVideo.value = options.featuredVideo

C28_FlagEqualsOption == [][C28_InvokeStep]_vars

C28_Witness ==
    /\ page = [script |-> "fallback-json", pc |-> "catchDone"]
    /\ runs[1].pc = "Crashed"
    /\ runs[2].pc # "idle"
    /\ youtubeShowFeaturedVideo = Published(FALSE)
    /\ ~options.featuredVideo

(* C29 as stated: a run makes no more than three network calls.            *)
C29_AtMostThreeCalls ==
    \A r \in RunIds : Kept(r) => Len(runs[r].reqs) <= 3

(* C29 amended: a run makes no more than four network calls: two with a    *)
(* channelId configured, three when the username lookup resolves the       *)
(* handle, four when the search lookup does.                                *)
C29_AtMostFourCalls ==
    \A r \in RunIds :
        Kept(r) =>
            /\ Len(runs[r].reqs) <= 4
            /\ options.channelId # "" => Len(runs[r].reqs) <= 2
            /\ ~Asks(runs[r], "search") => Len(runs[r].reqs) <= 3

C29_Witness ==
    \E r \in RunIds :
        /\ Len(runs[r].reqs) = 4
        /\ Asks(runs[r], "search") /\ Asks(runs[r], "playlistItems")
        /\ runs[r].pc = "ErrorShown" /\ runs[r].error = "No videos found"

(* C30: renderVideos is only given a non-empty list: a Rendered outcome    *)
(* shows at least one record, whether it came from the cache, the API or   *)
(* the fallback list (the store being written by this controller only).    *)
C30_RenderedNonEmpty ==
    \A r \in RunIds :
        (Kept(r) /\ runs[r].pc = "Rendered") =>
            /\ Len(runs[r].rendered) >= 1
            /\ runs[r].source \in {"cache", "api", "fallback"}

C30_Witness ==
    \E r \in RunIds :
        /\ runs[r].pc = "Rendered" /\ runs[r].source = "cache"
        /\ runs[r].age = "at"
        /\ Len(runs[r].rendered) = 2

(* C31: a run whose fetch returned at least one record never enters        *)
(* FallbackCheck, never renders fallback records and never shows the error *)
(* view, whatever happens after the fetch.                                  *)
C31_FetchedRunsSkipFallback ==
    \A r \in RunIds :
        (runs[r].fetch = "ok" /\ Len(runs[r].fetched) >= 1) =>
            /\ ~Entered(runs[r], "FallbackCheck")
            /\ runs[r].source # "fallback"
            /\ runs[r].error = "none"

Starts(r) == runs[r].pc = "idle" /\ runs'[r].pc \notin {"idle", "aborted"}

C32_IndicatorStep ==
    /\ \A r \in RunIds :
          /\ (Starts(r) /\ CacheMiss(runs'[r])) =>
                /\ Entered(runs'[r], "Loading")
                /\ loadingDisplay' = "flex"
                /\ container' = <<>>
          /\ (Starts(r) /\ runs'[r].cache = "hit") =>
                /\ ~Entered(runs'[r], "Loading")
                /\ loadingDisplay' # "flex"
          /\ BecomesTerminal(r) => loadingDisplay' = "none"
    /\ loadingDisplay' = "flex" =>
          \E r \in RunIds :
              /\ Entered(runs'[r], "Loading")
              /\ runs'[r].pc \notin {"Rendered", "ErrorShown"}

C33_NoHalfDoneStep ==
    \A r \in RunIds :
        /\ CacheMiss(runs[r]) =>
              (Entered(runs[r], "Loading") /\ Len(runs[r].reqs) >= 1)
        /\ runs[r].writes >= 1 =>
              /\ runs[r].source = "api"
              /\ runs[r].rendered = runs[r].fetched

(* C34 as stated, for an entry written by a run that rendered its records: *)
(* whenever no run is in flight and the render target shows the error      *)
(* view, the store holds no such entry that is still unexpired.            *)
Quiet == \A r \in RunIds : ~Waiting(runs[r])
ErrorViewShown == HasElement(container, "youtube-error")
HoldsUnexpired(st) == st.present /\ st.parses /\ ~IsExpired(now, st.timestamp)
WrittenByRendered(st) ==
    \E r \in RunIds :
        /\ runs[r].pc = "Rendered" /\ runs[r].source = "api"
        /\ runs[r].writes >= 1 /\ runs[r].endStore = st

BecomesErrorShown(r) == runs[r].pc # "ErrorShown" /\ runs'[r].pc = "ErrorShown"

C34_ErrorStep ==
    \A r \in RunIds :
        BecomesErrorShown(r) =>
            /\ runs'[r].age \notin {"before", "at"}
            /\ runs'[r].age = "after" => runs'[r].afterCheck = AbsentEntry

C35_StoreStep ==
    /\ \A r \in RunIds :
          (runs[r].pc = "idle" /\ runs'[r].age \in {"before", "at"}) =>
              localStorage' = localStorage
    /\ localStorage' # localStorage =>
          \E r \in RunIds :
              \/ /\ Waiting(runs[r])
                 /\ runs'[r].fetch = "ok" /\ Len(runs'[r].fetched) >= 1
                 /\ localStorage' = [present |-> TRUE, parses |-> TRUE,
                                     videos |-> JsonRoundTrip(runs'[r].fetched),
                                     timestamp |-> now]
              \/ /\ runs[r].pc = "idle" /\ runs'[r].age = "after"
                 /\ localStorage' = AbsentEntry

C35_HitLeavesStore == [][C35_StoreStep]_vars

C35_Witness ==
    \E r \in RunIds :
        /\ runs[r].cache = "hit" /\ runs[r].pc = "Rendered"
        /\ localStorage.present /\ localStorage.timestamp < now
        /\ localStorage = runs[r].afterCheck

(* C36: the page script that loads fallback-videos.json calls init() on    *)
(* exactly one controller per page load: never a second time, and once by  *)
(* the time its .then or .catch handler has finished.                      *)
InitCalls == Cardinality({r \in RunIds : runs[r].pc # "idle"})

C36_InitExactlyOnce ==
    page.script = "fallback-json" =>
        /\ InitCalls <= 1
        /\ page.pc \in {"thenDone", "catchDone"} => InitCalls = 1

(* C37: with an empty fallback list the two classes differ only in the     *)
(* renderer (the earlier one formats publishedAt), so the fallback-aware   *)
(* class ends a run in the terminal state of the earlier class exactly     *)
(* when the earlier renderer accepts what the later one rendered: every    *)
(* list of records a run of the fallback-aware class has rendered is       *)
(* rendered by the earlier class without an exception.                      *)
C37_EarlierRendersTheSame ==
    (controller = "current" /\ ~FallbackConfigured) =>
        \A r \in RunIds :
            runs[r].pc = "Rendered" =>
                \A i \in 1..Len(runs[r].rendered) :
                    ~CardThrowsEarlier(runs[r].rendered[i])

(* C38: without the Instagram iframe the loading indicator is hidden and    *)
(* both fallbacks are shown from the start; with it, the 5000 ms timer     *)
(* shows the fallback exactly when the load event has not fired before it, *)
(* and then the static fallback follows 3000 ms or more after that         *)
(* instant; a load event before the timer leaves both hidden for good; the *)
(* static fallback is visible only if the fallback is.                     *)
InstagramChecks == instagram.timer.state = "check" /\ instagram'.timer.state # "check"
InstagramStaticFires == instagram.timer.state = "static" /\ instagram'.timer.state # "static"

C38_InstagramStep ==
    /\ InstagramChecks =>
          /\ now >= InstagramDelay
          /\ instagram.fallback # "block" /\ instagram.static # "block"
          /\ instagram.loaded =>
                /\ instagram'.fallback # "block"
                /\ instagram'.timer.state = "done"
          /\ ~instagram.loaded =>
                /\ instagram'.fallback = "block" /\ instagram'.loading = "none"
                /\ instagram'.static # "block"
                /\ instagram'.timer = [state |-> "static", due |-> now + InstagramStaticDelay]
    /\ InstagramStaticFires =>
          /\ now >= instagram.timer.due
          /\ instagram'.static = "block"
    /\ instagram'.fallback # instagram.fallback => InstagramChecks
    /\ instagram'.static # instagram.static => InstagramStaticFires
    /\ ~instagram'.iframe =>
          /\ instagram'.loading = "none"
          /\ instagram'.fallback = "block" /\ instagram'.static = "block"
    /\ instagram'.static = "block" => instagram'.fallback = "block"

====
